---------------------------- MODULE Spec2Model ----------------------------
(***************************************************************************)
(* o2view: numeric file ingestion (datamodel.py) and the fit session of    *)
(* the Dash server (server.py, visualization.py).                          *)
(*                                                                         *)
(* Text is a sequence of one-character tokens; the header words "a", "A",  *)
(* "b" and "Index" stand for whole words and are never split.  A line is a *)
(* sequence of tokens without "\n"; a field is a sequence of tokens        *)
(* without the separator.                                                  *)
(***************************************************************************)
EXTENDS Integers, Sequences, FiniteSets, TLC

VARIABLES
    args,       \* arguments of the pending call of a pure function
    ret,        \* what that call returned or raised; NoCall before the call
    session     \* the Dash session: component properties and stores

vars == <<args, ret, session>>

-----------------------------------------------------------------------------
(* Bounds of the explored inputs.                                          *)

MaxCols == 2
MaxRows == 2
MaxSkip == 2
MaxSample == 3

-----------------------------------------------------------------------------
(* Text primitives (str.splitlines, str.split, str.strip, str.join).       *)

NL == "\n"
SP == " "

RECURSIVE FirstIndexFrom(_, _, _)
FirstIndexFrom(s, c, i) ==
    IF i > Len(s) THEN 0
    ELSE IF s[i] = c THEN i
    ELSE FirstIndexFrom(s, c, i + 1)

Tail_(s, i) == SubSeq(s, i, Len(s))

RECURSIVE Split(_, _)
Split(s, sep) ==
    LET i == FirstIndexFrom(s, sep, 1)
    IN  IF i = 0 THEN <<s>>
        ELSE <<SubSeq(s, 1, i - 1)>> \o Split(Tail_(s, i + 1), sep)

\* str.splitlines(): no line for the empty string, none after a final "\n".
SplitLines(text) ==
    LET parts == Split(text, NL)
    IN  IF text = <<>> THEN <<>>
        ELSE IF parts[Len(parts)] = <<>> THEN SubSeq(parts, 1, Len(parts) - 1)
        ELSE parts

RECURSIVE LStrip(_)
LStrip(f) == IF f # <<>> /\ f[1] = SP THEN LStrip(Tail(f)) ELSE f

RECURSIVE RStrip(_)
RStrip(f) ==
    IF f # <<>> /\ f[Len(f)] = SP THEN RStrip(SubSeq(f, 1, Len(f) - 1)) ELSE f

Strip(f) == RStrip(LStrip(f))

RECURSIVE Join(_, _)
Join(parts, sep) ==
    IF parts = <<>> THEN <<>>
    ELSE IF Len(parts) = 1 THEN parts[1]
    ELSE parts[1] \o <<sep>> \o Join(Tail(parts), sep)

Count(s, c) == Cardinality({i \in 1..Len(s) : s[i] = c})


Max(a, b) == IF a >= b THEN a ELSE b
Min(a, b) == IF a <= b THEN a ELSE b

Range(s) == {s[i] : i \in 1..Len(s)}

-----------------------------------------------------------------------------
(* detect_delimiter (datamodel.py 165-199).                                *)

\* The separators csv.Sniffer prefers, in its order of preference, among the
\* tokens of the model (',', ';', ' ').
Preferred == <<",", ";", SP>>

FileIsEmpty == "File is empty"
InsufficientRows == "Insufficient rows for delimiter detection"
DetectionFailed == "Delimiter detection failed"
NoError == ""

\* csv.Sniffer().sniff(sample): a character qualifies when it occurs the same
\* positive number of times on every sampled line; of several, the first of
\* the preferred list wins; none is csv.Error.  Letters and digits as
\* delimiters are left out of the model.
SniffCandidates(sample) ==
    LET lines == Split(sample, NL)
    IN  {i \in 1..Len(Preferred) :
            /\ Count(lines[1], Preferred[i]) > 0
            /\ \A k \in 1..Len(lines) :
                  Count(lines[k], Preferred[i]) = Count(lines[1], Preferred[i])}

Sniff(sample) ==
    LET c == SniffCandidates(sample)
    IN  IF c = {} THEN [error |-> DetectionFailed, delimiter |-> "", sample |-> sample]
        ELSE [error |-> NoError,
              delimiter |-> Preferred[CHOOSE i \in c : \A j \in c : i <= j],
              sample |-> sample]

\* lines[skip_rows : skip_rows + sample_rows]
Sample(lines, skip_rows, sample_rows) ==
    SubSeq(lines, skip_rows + 1, skip_rows + sample_rows)

EnoughRowsWrong(lines, skip_rows, sample_rows) ==
    Len(lines) > skip_rows + sample_rows

EnoughRows(lines, skip_rows, sample_rows) ==
    ~ (Len(lines) < skip_rows + sample_rows)

detect_delimiter(decoded_string, skip_rows, sample_rows_arg) ==
    LET sample_rows == Max(1, sample_rows_arg)
        lines == SplitLines(decoded_string)
    IN  IF lines = <<>>
        THEN [error |-> FileIsEmpty, delimiter |-> "", sample |-> <<>>]
        ELSE IF ~ EnoughRows(lines, skip_rows, sample_rows)
        THEN [error |-> InsufficientRows, delimiter |-> "", sample |-> <<>>]
        ELSE Sniff(Join(Sample(lines, skip_rows, sample_rows), NL))

-----------------------------------------------------------------------------
(* Data frames.  A table is its column names and its columns; a frame      *)
(* without columns has no rows (pl.DataFrame()).                           *)

EmptyTable == [columns |-> <<>>, data |-> <<>>]

Height(t) == IF t.columns = <<>> THEN 0 ELSE Len(t.data[1])

Width(t) == Len(t.columns)

IndexName == "index"

HasDuplicates(names) ==
    \E i, j \in 1..Len(names) : i < j /\ names[i] = names[j]

\* DataFrame.with_row_index(): DuplicateError when a column is named "index".
WithRowIndexUnchecked(t) ==
    [error |-> NoError,
     table |-> [columns |-> <<IndexName>> \o t.columns,
                data |-> <<[i \in 1..Height(t) |-> i - 1]>> \o t.data]]

WithRowIndex(t) ==
    IF IndexName \in Range(t.columns)
    THEN [error |-> "DuplicateError", table |-> EmptyTable]
    ELSE [error |-> NoError,
          table |-> [columns |-> <<IndexName>> \o t.columns,
                     data |-> <<[i \in 1..Height(t) |-> i - 1]>> \o t.data]]

-----------------------------------------------------------------------------
(* pl.scan_csv / select(cs.numeric()) / clean_names (datamodel.py 239-258). *)

Digits == {"0", "1", "2", "3", "4", "5", "6", "7", "8", "9"}

DigitValue ==
    ("0" :> 0) @@ ("1" :> 1) @@ ("2" :> 2) @@ ("3" :> 3) @@ ("4" :> 4) @@
    ("5" :> 5) @@ ("6" :> 6) @@ ("7" :> 7) @@ ("8" :> 8) @@ ("9" :> 9)

IsInt(field) == field # <<>> /\ \A i \in 1..Len(field) : field[i] \in Digits

RECURSIVE IntValue(_)
IntValue(field) ==
    IF field = <<>> THEN 0
    ELSE 10 * IntValue(SubSeq(field, 1, Len(field) - 1)) + DigitValue[field[Len(field)]]

\* The reader renames a repeated header name: a, a_duplicated_0, a_duplicated_1.
DupSuffix == <<"_duplicated_0", "_duplicated_1", "_duplicated_2", "_duplicated_3">>

Earlier(names, i) == Cardinality({j \in 1..(i - 1) : names[j] = names[i]})

DedupHeader(names) ==
    [i \in 1..Len(names) |->
        IF Earlier(names, i) = 0 THEN names[i]
        ELSE names[i] \o <<DupSuffix[Earlier(names, i)]>>]

\* A column is numeric when it has cells and every cell is an integer; a
\* column of a file without data rows is a string column.
IsNumericColumn(cells) == cells # <<>> /\ \A i \in 1..Len(cells) : IsInt(cells[i])

ReadCsvError == [error |-> "NoDataError", names |-> <<>>, cells |-> <<>>]

\* The frame the reader builds: header after skip_rows lines, then the rows.
\* The files of the model are rectangular; a row with another field count
\* than the header is reported as an error.
ReadCsv(text, skip_rows, separator) ==
    LET lines == SplitLines(text)
    IN  IF Len(lines) <= skip_rows THEN ReadCsvError
        ELSE
          LET header == Split(lines[skip_rows + 1], separator)
              rows == [k \in 1..(Len(lines) - skip_rows - 1) |->
                          Split(lines[skip_rows + 1 + k], separator)]
          IN  IF \E k \in 1..Len(rows) : Len(rows[k]) # Len(header)
              THEN [error |-> "ComputeError", names |-> <<>>, cells |-> <<>>]
              ELSE [error |-> NoError,
                    names |-> DedupHeader(header),
                    cells |-> [c \in 1..Len(header) |->
                                  [k \in 1..Len(rows) |-> rows[k][c]]]]

\* The positions of the columns select(cs.numeric()) keeps, in order.
RECURSIVE NumericFrom(_, _)
NumericFrom(frame, c) ==
    IF c > Len(frame.names) THEN <<>>
    ELSE (IF IsNumericColumn(frame.cells[c]) THEN <<c>> ELSE <<>>)
         \o NumericFrom(frame, c + 1)

NumericPositionsFromSecond(frame) == NumericFrom(frame, 2)

NumericPositions(frame) == NumericFrom(frame, 1)

\* clean_names(remove_special, strip_underscores, strip_accents): lower case,
\* separators and blanks to "_", runs of "_" collapsed, "_" stripped at
\* both ends.
LowerToken ==
    ("A" :> "a") @@ ("B" :> "b") @@ ("Index" :> "index") @@ ("X" :> "x")

CleanToken(t) ==
    IF t \in DOMAIN LowerToken THEN LowerToken[t]
    ELSE IF t \in {",", ";", SP, "?"} THEN "_"
    ELSE t

RECURSIVE Collapse(_)
Collapse(name) ==
    IF Len(name) < 2 THEN name
    ELSE IF name[1] = "_" /\ name[2] = "_" THEN Collapse(Tail(name))
    ELSE <<name[1]>> \o Collapse(Tail(name))

RECURSIVE StripUnderscores(_)
StripUnderscores(name) ==
    IF name # <<>> /\ name[1] = "_" THEN StripUnderscores(Tail(name))
    ELSE IF name # <<>> /\ name[Len(name)] = "_"
    THEN StripUnderscores(SubSeq(name, 1, Len(name) - 1))
    ELSE name

RECURSIVE Concat(_)
Concat(name) == IF name = <<>> THEN "" ELSE name[1] \o Concat(Tail(name))

CleanName(name) ==
    Concat(StripUnderscores(Collapse([i \in 1..Len(name) |-> CleanToken(name[i])])))

\* select(cs.numeric()).clean_names(...): renaming two columns to one name
\* is an error.
SelectNumericCleanNames(frame) ==
    LET pos == NumericPositions(frame)
        names == [i \in 1..Len(pos) |-> CleanName(frame.names[pos[i]])]
    IN  IF frame.error # NoError THEN [error |-> frame.error, table |-> EmptyTable]
        ELSE IF HasDuplicates(names)
        THEN [error |-> "DuplicateError", table |-> EmptyTable]
        ELSE [error |-> NoError,
              table |-> [columns |-> names,
                         data |-> [i \in 1..Len(pos) |->
                                     [k \in 1..Len(frame.cells[pos[i]]) |->
                                         IntValue(frame.cells[pos[i]][k])]]]]

-----------------------------------------------------------------------------
(* parse_contents (datamodel.py 202-264).                                  *)
(*                                                                         *)
(* contents is "data:<mime>;base64,<data>": whether it holds the comma,    *)
(* whether <data> decodes, and the bytes it decodes to.  The bytes are     *)
(* either text or a workbook (then text is the first sheet as read by the  *)
(* spreadsheet reader, one comma separated line per row).                  *)

DefaultSampleRows == 3

\* What a workbook's bytes give when decoded as text with errors="replace".
Garbage == <<"?", "?">>

\* contents.split(",", 1) and base64.b64decode
B64Decode(contents) ==
    IF ~ contents.comma THEN [error |-> "ValueError", bytes |-> <<>>]
    ELSE IF ~ contents.b64ok THEN [error |-> "binascii.Error", bytes |-> <<>>]
    ELSE [error |-> NoError, bytes |-> contents.bytes]

DecodeUtf8(bytes) == IF bytes.format = "text" THEN bytes.text ELSE Garbage

LowerSuffix ==
    (".CSV" :> ".csv") @@ (".XLSX" :> ".xlsx") @@ (".Txt" :> ".txt")

\* Path(filename).suffix.lower()
SuffixLower(filename) ==
    IF filename.suffix \in DOMAIN LowerSuffix THEN LowerSuffix[filename.suffix]
    ELSE filename.suffix

\* separator.join(field.strip() for field in line.split(separator)), per line
StripFields(fields) == [i \in 1..Len(fields) |-> Strip(fields[i])]

CleanedContent(content_str, separator) ==
    LET lines == SplitLines(content_str)
    IN  Join([k \in 1..Len(lines) |->
                 Join(StripFields(Split(lines[k], separator)), separator)],
             NL)

\* pl.read_excel(io.BytesIO(decoded_bytes), read_options={"skip_rows": ...})
ReadExcel(bytes, skip_rows) ==
    IF bytes.format # "xlsx"
    THEN [error |-> "InvalidFile", names |-> <<>>, cells |-> <<>>]
    ELSE ReadCsv(bytes.text, skip_rows, ",")

Returns(stage, table) == [raised |-> NoError, stage |-> stage, table |-> table]
Raises(stage, error) == [raised |-> error, stage |-> stage, table |-> EmptyTable]

\* return df.with_row_index(), outside the try blocks
PostProcess(df) ==
    LET out == WithRowIndex(df)
    IN  IF out.error # NoError THEN Raises("post", out.error)
        ELSE Returns("ok", out.table)

DelimitedPath(bytes, skip_rows, separator_arg) ==
    LET content_str == DecodeUtf8(bytes)
        det == IF separator_arg = "auto"
               THEN detect_delimiter(content_str, skip_rows, DefaultSampleRows)
               ELSE [error |-> NoError, delimiter |-> separator_arg, sample |-> <<>>]
    IN  IF det.error # NoError THEN [error |-> det.error, stage |-> "detect", table |-> EmptyTable]
        ELSE LET df == SelectNumericCleanNames(
                           ReadCsv(CleanedContent(content_str, det.delimiter),
                                   skip_rows, det.delimiter))
             IN  [error |-> df.error, stage |-> "parse", table |-> df.table]

SpreadsheetPath(bytes, skip_rows) ==
    LET df == SelectNumericCleanNames(ReadExcel(bytes, skip_rows))
    IN  [error |-> df.error, stage |-> "parse", table |-> df.table]

parse_contents(contents, filename, skip_rows, separator) ==
    LET decoded == B64Decode(contents)
        suffix == SuffixLower(filename)
    IN  IF decoded.error # NoError THEN Returns("decode", EmptyTable)
        ELSE IF suffix \in {".csv", ".txt", ".tsv"}
        THEN LET df == DelimitedPath(decoded.bytes, skip_rows, separator)
             IN  IF df.error # NoError THEN Returns(df.stage, EmptyTable)
                 ELSE PostProcess(df.table)
        ELSE IF suffix \in {".xlsx", ".xls"}
        THEN LET df == SpreadsheetPath(decoded.bytes, skip_rows)
             IN  IF df.error # NoError THEN Returns(df.stage, EmptyTable)
                 ELSE PostProcess(df.table)
        ELSE Returns("suffix", EmptyTable)

-----------------------------------------------------------------------------
(* Floating point values: exact fractions n/d (d > 0, reduced), NaN, and   *)
(* the null a NaN or None becomes in the JSON of a component property.     *)

RECURSIVE Gcd(_, _)
Gcd(a, b) == IF b = 0 THEN a ELSE Gcd(b, a % b)

Abs(a) == IF a < 0 THEN -a ELSE a

NaN == [k |-> "nan", n |-> 0, d |-> 1]
NullNum == [k |-> "null", n |-> 0, d |-> 1]

Num(n, d) ==
    IF d = 0 THEN NaN
    ELSE LET g == Gcd(Abs(n), Abs(d))
             sgn == IF d < 0 THEN -1 ELSE 1
         IN  [k |-> "num", n |-> sgn * (n \div g), d |-> sgn * (d \div g)]

IsNum(a) == a.k = "num"

Mul(a, b) == IF IsNum(a) /\ IsNum(b) THEN Num(a.n * b.n, a.d * b.d) ELSE NaN
Add(a, b) == IF IsNum(a) /\ IsNum(b) THEN Num(a.n * b.d + b.n * a.d, a.d * b.d) ELSE NaN
Sub(a, b) == IF IsNum(a) /\ IsNum(b) THEN Num(a.n * b.d - b.n * a.d, a.d * b.d) ELSE NaN

\* float NaN -> null
ToJsonNum(a) == IF a.k = "nan" THEN NullNum ELSE a

\* Python None, and the null it becomes in JSON.
None == "None"

RECURSIVE Sum(_)
Sum(xs) == IF xs = <<>> THEN 0 ELSE xs[1] + Sum(Tail(xs))

Products(xs, ys) == [i \in 1..Len(xs) |-> xs[i] * ys[i]]

-----------------------------------------------------------------------------
(* LinearFit (datamodel.py 267-350) and scipy.stats.linregress.            *)

HasColumn(df, name) == name \in Range(df.columns)

ColumnPos(df, name) == CHOOSE c \in 1..Len(df.columns) : df.columns[c] = name

GetColumn(df, name) == df.data[ColumnPos(df, name)]

\* stats.linregress(x, y): slope, intercept and rvalue (its sign and its
\* square); pvalue and the standard errors enter no record and no trace.
\* All x identical (more than one point) is ValueError; a single point
\* gives slope = 0/0 = nan without an exception.
Linregress(x, y) ==
    LET n == Len(x)
        ssxm == n * Sum(Products(x, x)) - Sum(x) * Sum(x)
        ssym == n * Sum(Products(y, y)) - Sum(y) * Sum(y)
        ssxym == n * Sum(Products(x, y)) - Sum(x) * Sum(y)
        slope == Num(ssxym, ssxm)
        intercept == Sub(Num(Sum(y), n), Mul(slope, Num(Sum(x), n)))
    IN  IF n = 0 THEN [error |-> "ValueError"]
        ELSE IF n > 1 /\ \A i \in 1..n : x[i] = x[1] THEN [error |-> "ValueError"]
        ELSE [error |-> NoError,
              slope |-> slope,
              intercept |-> intercept,
              rvalue |-> IF ssxm = 0 \/ ssym = 0
                         THEN [sign |-> 0, sq |-> Num(0, 1)]
                         ELSE [sign |-> IF ssxym < 0 THEN -1 ELSE IF ssxym > 0 THEN 1 ELSE 0,
                               sq |-> Num(ssxym * ssxym, ssxm * ssym)]]

FitError(e) == [error |-> e]

\* LinearFit.__post_init__ together with the properties read from the fit.
LinearFit(start_index, end_index, df, x_name, y_name, y2_name) ==
    IF ~ HasColumn(df, x_name) \/ ~ HasColumn(df, y_name) THEN FitError("ColumnNotFoundError")
    ELSE IF Height(df) = 0 THEN FitError("IndexError")
    ELSE IF y2_name # None /\ ~ HasColumn(df, y2_name) THEN FitError("ColumnNotFoundError")
    ELSE
      LET x_data == GetColumn(df, x_name)
          y_data == GetColumn(df, y_name)
          n == Len(x_data)
          res == Linregress(x_data, y_data)
      IN  IF res.error # NoError THEN FitError(res.error)
          ELSE [error |-> NoError,
                start_index |-> start_index,
                end_index |-> end_index,
                x_name |-> x_name,
                y_name |-> y_name,
                y2_name |-> y2_name,
                x_first |-> Num(x_data[1], 1),
                x_last |-> Num(x_data[n], 1),
                y_first |-> Num(y_data[1], 1),
                y_last |-> Num(y_data[n], 1),
                y2_first |-> IF y2_name # None
                             THEN Num(GetColumn(df, y2_name)[1], 1) ELSE NaN,
                y2_last |-> IF y2_name # None
                            THEN Num(GetColumn(df, y2_name)[n], 1) ELSE NaN,
                result |-> res,
                x_data |-> x_data,
                y_fitted |-> [i \in 1..n |->
                                 Add(Mul(res.slope, Num(x_data[i], 1)), res.intercept)],
                rsquared |-> res.rvalue.sq,
                y2_mean |-> IF y2_name # None
                            THEN Num(Sum(GetColumn(df, y2_name)), n) ELSE NaN]

\* make_result with the square of the slope written as rsquared.
make_result_of_slope(fit, source_file) ==
    [source_file |-> source_file,
     start_index |-> fit.start_index,
     end_index |-> fit.end_index,
     slope |-> fit.result.slope,
     rsquared |-> Mul(fit.result.slope, fit.result.slope),
     y2_mean |-> fit.y2_mean,
     x_name |-> fit.x_name,
     x_first |-> fit.x_first,
     x_last |-> fit.x_last,
     y_name |-> fit.y_name,
     y_first |-> fit.y_first,
     y_last |-> fit.y_last,
     y2_name |-> fit.y2_name,
     y2_first |-> fit.y2_first,
     y2_last |-> fit.y2_last]

\* LinearFit.make_result(source_file): the one-row frame of the record.
make_result(fit, source_file) ==
    [source_file |-> source_file,
     start_index |-> fit.start_index,
     end_index |-> fit.end_index,
     slope |-> fit.result.slope,
     rsquared |-> fit.rsquared,
     y2_mean |-> fit.y2_mean,
     x_name |-> fit.x_name,
     x_first |-> fit.x_first,
     x_last |-> fit.x_last,
     y_name |-> fit.y_name,
     y_first |-> fit.y_first,
     y_last |-> fit.y_last,
     y2_name |-> fit.y2_name,
     y2_first |-> fit.y2_first,
     y2_last |-> fit.y2_last]

-----------------------------------------------------------------------------
(* Frames and component properties (to_dicts, from_dicts, slice).          *)

\* DataFrame.to_dicts() / write_json(): one dict per row, keys in column
\* order; a frame without rows gives [] and loses its columns.
ToDicts(t) ==
    [r \in 1..Height(t) |-> [c \in 1..Width(t) |-> <<t.columns[c], t.data[c][r]>>]]

\* pl.from_dicts(rows) / pl.read_json
FromDicts(rows) ==
    IF rows = <<>> THEN EmptyTable
    ELSE [columns |-> [c \in 1..Len(rows[1]) |-> rows[1][c][1]],
          data |-> [c \in 1..Len(rows[1]) |-> [r \in 1..Len(rows) |-> rows[r][c][2]]]]

\* DataFrame.slice(offset, length)
Slice(t, offset, length) ==
    [columns |-> t.columns,
     data |-> [c \in 1..Width(t) |->
                 SubSeq(t.data[c], offset + 1, Min(Height(t), offset + length))]]

-----------------------------------------------------------------------------
(* visualization.py: plot_dataset, make_fit_trace, find_trace_index.       *)

\* A trace name: a column name, or f"{source_file}_{start_index}".
ColumnTraceName(col) == [text |-> col, num |-> -1]
FitTraceName(source_file, start_index) ==
    [text |-> source_file \o "_", num |-> start_index]

NoHover == [start_index |-> -1, slope |-> NullNum, r2 |-> NullNum, y2_mean |-> NullNum]

Pow10 == <<10, 100, 1000, 10000>>

\* f"{value:.<digits>f}"
Format(a, digits) ==
    IF ~ IsNum(a) THEN a
    ELSE Num((2 * a.n * Pow10[digits] + a.d) \div (2 * a.d), Pow10[digits])

Markers(name, x, y) ==
    [name |-> ColumnTraceName(name), mode |-> "markers", x |-> x,
     y |-> [i \in 1..Len(y) |-> Num(y[i], 1)], hover |-> NoHover]

\* plot_dataset(df, x_name, y_name, y2_name): the traces of the figure.
plot_dataset(df, x_name, y_name, y2_name) ==
    IF ~ HasColumn(df, x_name) \/ ~ HasColumn(df, y_name)
       \/ (y2_name # None /\ ~ HasColumn(df, y2_name))
    THEN [error |-> "ColumnNotFoundError", data |-> <<>>]
    ELSE [error |-> NoError,
          data |-> <<Markers(y_name, GetColumn(df, x_name), GetColumn(df, y_name))>>
                   \o (IF y2_name # None
                       THEN <<Markers(y2_name, GetColumn(df, x_name), GetColumn(df, y2_name))>>
                       ELSE <<>>)]

\* rsquared ** 2 of the value handed over: a float, or linregress' rvalue
\* (kept as its sign and its square).
Squared(v) == IF "sq" \in DOMAIN v THEN v.sq ELSE Mul(v, v)

\* make_fit_trace: rsquared is squared once more for the hover text; a
\* y2_mean of 0.0 is falsy and shown as nan.
make_fit_trace(x, y_fitted, name, slope, rsquared, start_index, y2_mean) ==
    [name |-> name, mode |-> "lines", x |-> x, y |-> y_fitted,
     hover |-> [start_index |-> start_index,
                slope |-> Format(slope, 4),
                r2 |-> Format(Squared(rsquared), 3),
                y2_mean |-> IF y2_mean = Num(0, 1) THEN NaN ELSE Format(y2_mean, 1)]]

\* find_trace_index: the 0-based position of the first trace of that name, or -1.
find_trace_index(figure_data, source_file, start_index) ==
    LET hits == {i \in 1..Len(figure_data) :
                    figure_data[i].name = FitTraceName(source_file, start_index)}
    IN  IF hits = {} THEN -1
        ELSE (CHOOSE i \in hits : \A j \in hits : i <= j) - 1

-----------------------------------------------------------------------------
(* The uploaded files of the model: a header of up to MaxCols names, up to *)
(* MaxRows rows, each column all numbers ("num"), all words ("str") or     *)
(* numbers with a word in the last row ("mixed"); fields separated by ','  *)
(* or ';', padded with blanks or not.                                      *)

HeaderTokens == {"Index", "a", "A"}
ColumnKinds == {"num", "str", "mixed"}
DigitToken == <<"1", "2", "3", "4", "5", "6", "7", "8", "9">>

Cell(kind, k, r) ==
    IF kind = "str" \/ (kind = "mixed" /\ k = r) THEN <<"x">>
    ELSE <<"1", DigitToken[k]>>

Pad(field, pad) == IF pad THEN <<SP>> \o field \o <<SP>> ELSE field

Render(header, kinds, r, delim, pad) ==
    LET c == Len(header)
        line(k) == IF k = 0
                   THEN Join([i \in 1..c |-> Pad(<<header[i]>>, pad)], delim)
                   ELSE Join([i \in 1..c |-> Pad(Cell(kinds[i], k, r), pad)], delim)
    IN  IF c = 0 THEN <<>>
        ELSE Join([k \in 1..(r + 1) |-> line(k - 1)], NL) \o <<NL>>

Texts(delim, pad) ==
    UNION {{Render(h, kd, r, delim, pad) :
                h \in [1..c -> HeaderTokens],
                kd \in [1..c -> ColumnKinds],
                r \in 0..MaxRows} : c \in 0..MaxCols}

FileName(stem, suffix) == [stem |-> stem, suffix |-> suffix]

GoodContents(format, text) ==
    [comma |-> TRUE, b64ok |-> TRUE, bytes |-> [format |-> format, text |-> text]]

Call(contents, filename, skip_rows, separator) ==
    [fn |-> "parse_contents", contents |-> contents, filename |-> filename,
     skip_rows |-> skip_rows, separator |-> separator]

\* Delimited text under a delimited-text name, every separator setting.
DelimitedCalls ==
    {Call(GoodContents("text", t), FileName("a", ".csv"), k, sep) :
        t \in Texts(",", FALSE) \cup Texts(";", TRUE),
        k \in 0..MaxSkip,
        sep \in {"auto", ",", ";"}}

\* Workbooks under a spreadsheet name.
SpreadsheetCalls ==
    {Call(GoodContents("xlsx", t), FileName("a", ".xlsx"), k, "auto") :
        t \in Texts(",", FALSE), k \in 0..MaxSkip}

\* Other names, other bytes than the name announces, broken contents.
SmallText == Render(<<"a", "A">>, <<"num", "str">>, 2, ",", TRUE)

OtherCalls ==
    {Call([comma |-> cm, b64ok |-> ok, bytes |-> [format |-> f, text |-> SmallText]],
          FileName("a", sfx), k, sep) :
        cm \in BOOLEAN, ok \in BOOLEAN, f \in {"text", "xlsx"},
        sfx \in {".csv", ".CSV", ".Txt", ".tsv", ".xlsx", ".XLSX", ".xls", ".pdf", ""},
        k \in {0, 1}, sep \in {"auto", ";"}}

ParseCalls == DelimitedCalls \cup SpreadsheetCalls \cup OtherCalls

\* detect_delimiter on the texts of the model, every skip and sample count.
DetectCalls ==
    {[fn |-> "detect_delimiter", decoded_string |-> t, skip_rows |-> k, sample_rows |-> n] :
        t \in Texts(",", FALSE) \cup Texts(";", TRUE),
        k \in 0..MaxSkip,
        n \in {-1, 0} \cup 1..MaxSample}

NoCall == [raised |-> "NoCall", stage |-> "", table |-> EmptyTable]

NoSession == [tag |-> "none"]

InitIngest ==
    /\ args \in ParseCalls \cup DetectCalls
    /\ ret = NoCall
    /\ session = NoSession

CallParseContents ==
    /\ args.fn = "parse_contents"
    /\ ret = NoCall
    /\ ret' = parse_contents(args.contents, args.filename, args.skip_rows, args.separator)
    /\ UNCHANGED <<args, session>>

CallDetectDelimiter ==
    /\ args.fn = "detect_delimiter"
    /\ ret = NoCall
    /\ ret' = detect_delimiter(args.decoded_string, args.skip_rows, args.sample_rows)
    /\ UNCHANGED <<args, session>>

NextIngest == CallParseContents \/ CallDetectDelimiter

SpecIngest == InitIngest /\ [][NextIngest]_vars

Parsed == args.fn = "parse_contents" /\ ret # NoCall
Detected == args.fn = "detect_delimiter" /\ ret # NoCall

-----------------------------------------------------------------------------
(* Claims about ingestion, under SpecIngest.                               *)

\* C1: parse_contents never raises: every call returns a table, and every
\* failure (decode, extension, delimiter detection, parse, post-processing)
\* returns the empty table.
C1_NeverRaises ==
    Parsed => /\ ret.raised = NoError
              /\ (ret.stage # "ok" => ret.table = EmptyTable)

\* The frame the reader read for the call: the columns of the input.
InputFrame ==
    LET bytes == args.contents.bytes
        content_str == DecodeUtf8(bytes)
        sep == IF args.separator = "auto"
               THEN detect_delimiter(content_str, args.skip_rows, DefaultSampleRows).delimiter
               ELSE args.separator
    IN  IF SuffixLower(args.filename) \in {".xlsx", ".xls"}
        THEN ReadExcel(bytes, args.skip_rows)
        ELSE ReadCsv(CleanedContent(content_str, sep), args.skip_rows, sep)

AllInts(cells) == cells # <<>> /\ \A k \in 1..Len(cells) : IsInt(cells[k])

NumericColumns(frame) == {c \in 1..Len(frame.names) : AllInts(frame.cells[c])}

\* The i-th numeric column of the frame, counted from the left.
NthNumeric(frame, i) ==
    CHOOSE c \in NumericColumns(frame) :
        Cardinality({d \in NumericColumns(frame) : d < c}) = i - 1

\* C2: a successful parse returns the row index 0..n-1 first and then
\* exactly the numeric columns of the input, in their order; without
\* numeric columns the table holds the index column alone.
C2_IndexThenNumericColumns ==
    (Parsed /\ ret.stage = "ok") =>
        LET t == ret.table
            frame == InputFrame
            k == Cardinality(NumericColumns(frame))
            n == IF k = 0 THEN 0 ELSE Len(frame.cells[1])
        IN  /\ Len(t.columns) = k + 1
            /\ Len(t.data) = k + 1
            /\ t.columns[1] = IndexName
            /\ t.data[1] = [i \in 1..n |-> i - 1]
            /\ \A i \in 1..k :
                  /\ t.columns[i + 1] = CleanName(frame.names[NthNumeric(frame, i)])
                  /\ Len(t.data[i + 1]) = n
                  /\ \A r \in 1..n :
                        t.data[i + 1][r] = IntValue(frame.cells[NthNumeric(frame, i)][r])

\* A parse that kept a numeric column, dropped another one and numbered two rows.
C2_Witness ==
    /\ Parsed /\ ret.stage = "ok"
    /\ Len(ret.table.columns) = 2
    /\ Len(InputFrame.names) = 2
    /\ ret.table.data[1] = <<0, 1>>

LineCount(text) ==
    Count(text, NL) + (IF text # <<>> /\ text[Len(text)] # NL THEN 1 ELSE 0)

Insufficient(error) == error \in {FileIsEmpty, InsufficientRows}

\* C4: detect_delimiter fails for insufficient data (no line at all, or too
\* few of them) exactly when the text has fewer than
\* skip_rows + max(1, sample_rows) lines; otherwise it samples the lines
\* skip_rows .. skip_rows + max(1, sample_rows) - 1 and no others.
C4_InsufficientExactly ==
    Detected =>
        LET n == LineCount(args.decoded_string)
            m == IF args.sample_rows < 1 THEN 1 ELSE args.sample_rows
            lines == SplitLines(args.decoded_string)
        IN  /\ Insufficient(ret.error) <=> n < args.skip_rows + m
            /\ n >= args.skip_rows + m =>
                  ret.sample = Join([i \in 1..m |-> lines[args.skip_rows + i]], NL)

\* Too few lines in a text that is not empty.
C4_Witness ==
    /\ Detected
    /\ ret.error = InsufficientRows
    /\ LineCount(args.decoded_string) = 2
    /\ args.skip_rows = 1
    /\ args.sample_rows = 2

-----------------------------------------------------------------------------
(* server.py: the callbacks of the session.                                *)

MaxResults == 2
MaxTraces == 4

\* str(filename) as the upload component reports it
FullName(filename) == filename.stem \o filename.suffix

\* A store, a table or a figure that holds nothing (None, "" or []).
Nothing == <<>>

\* The data of the callback that did not return: PreventUpdate or an
\* exception leave every output as it was.
Done(out) == [status |-> "ok", out |-> out]
Prevented == [status |-> "PreventUpdate", out |-> Nothing]
Failed(e) == [status |-> e, out |-> Nothing]

\* read_presens: the store and the label of the uploaded file.
read_presens(contents, filename, skip_rows, separator) ==
    LET parsed == parse_contents(contents, filename, skip_rows, separator)
    IN  IF parsed.raised # NoError THEN Failed(parsed.raised)
        ELSE Done([store_dataset |-> [json |-> ToDicts(parsed.table)],
                   label |-> FullName(filename)])

\* populate_controls: the dataset view and the three axis selections.
populate_controls(data) ==
    IF data = Nothing THEN Prevented
    ELSE LET parsed == FromDicts(data.json)
             cols == parsed.columns
         IN  IF Len(cols) < 3 THEN Failed("IndexError")
             ELSE Done([table_dataset |-> ToDicts(parsed),
                        x_name |-> cols[2],
                        y_name |-> cols[3],
                        y2_name |-> cols[Len(cols)]])

\* update_graph: return data or no_update
update_graph(data, figure) == IF data = Nothing THEN figure ELSE data

\* fig.to_dict() on its way to the browser: nan becomes null.
ToJsonTrace(trace) ==
    [trace EXCEPT !.y = [i \in 1..Len(trace.y) |-> ToJsonNum(trace.y[i])]]

\* The overlay make_plot draws from one fit.
PlotFitTrace(fit, filename, start) ==
    IF fit.error # NoError THEN [error |-> fit.error]
    ELSE [error |-> NoError,
          trace |-> ToJsonTrace(make_fit_trace(fit.x_data, fit.y_fitted,
                                               FitTraceName(filename, start),
                                               fit.result.slope, fit.rsquared,
                                               start, fit.y2_mean))]

\* fig.add_trace(fit_trace) for every fit, or the first exception.
AddTraces(fig, fits) ==
    IF fig.error # NoError THEN Failed(fig.error)
    ELSE IF \E i \in 1..Len(fits) : fits[i].error # NoError
    THEN Failed((fits[CHOOSE i \in 1..Len(fits) : fits[i].error # NoError]).error)
    ELSE Done([i \in 1..Len(fig.data) |-> ToJsonTrace(fig.data[i])]
              \o [i \in 1..Len(fits) |-> fits[i].trace])

\* The fits of the records of the file over the table, columns as selected.
PlotFits(parsed, res, x_name, y_name, y2_name, filename) ==
    [i \in 1..Len(res) |->
        PlotFitTrace(LinearFit(res[i].start_index, res[i].end_index,
                               Slice(parsed, res[i].start_index,
                                     res[i].end_index - res[i].start_index + 1),
                               x_name, y_name, y2_name),
                     filename, res[i].start_index)]

\* res_df: the records whose source_file is the file name.
RecordsOf(results, filename) == SelectSeq(results, LAMBDA r : r.source_file = filename)

\* make_plot: the traces of the data and one overlay per record of the file.
make_plot(n_clicks, data, x_name, y_name, y2_name, results, filename) ==
    IF data = Nothing THEN Prevented
    ELSE AddTraces(plot_dataset(FromDicts(data), x_name, y_name, y2_name),
                   PlotFits(FromDicts(data), RecordsOf(results, filename),
                            x_name, y_name, y2_name, filename))

\* The order of the file names of the model as strings.
NameOrder == <<"a.csv", "b.csv", "c.pdf">>

StrRank(name) == CHOOSE i \in 1..Len(NameOrder) : NameOrder[i] = name

\* key1 <= key2 for keys that are pairs of numbers
KeyLeq(k1, k2) == k1[1] < k2[1] \/ (k1[1] = k2[1] /\ k1[2] <= k2[2])

\* sort(..., maintain_order=True) of items [key, val]: a stable sort.
RECURSIVE StableSort(_)
StableSort(items) ==
    IF items = <<>> THEN <<>>
    ELSE LET n == Len(items)
             front == StableSort(SubSeq(items, 1, n - 1))
             k == Cardinality({j \in 1..(n - 1) : KeyLeq(front[j].key, items[n].key)})
         IN  SubSeq(front, 1, k) \o <<items[n]>> \o SubSeq(front, k + 1, n - 1)

\* result_df.extend(...) alone
Extended(results) == results

\* result_df.sort("source_file", "start_index", maintain_order=True)
SortResults(results) ==
    LET items == [i \in 1..Len(results) |->
                     [key |-> <<StrRank(results[i].source_file), results[i].start_index>>,
                      val |-> results[i]]]
        sorted == StableSort(items)
    IN  [i \in 1..Len(sorted) |-> sorted[i].val]

\* The selected points in the order the browser reported them.
PointsAsPicked(points) == points

\* fit_df.sort("index", maintain_order=True) on the selected points
SortPoints(points) ==
    LET items == [i \in 1..Len(points) |->
                     [key |-> <<points[i].pointIndex, 0>>, val |-> points[i]]]
        sorted == StableSort(items)
    IN  [i \in 1..Len(sorted) |-> sorted[i].val]

\* result_df.to_dicts() on its way to the results table: nan becomes null.
ToJsonRecord(r) ==
    [r EXCEPT !.slope = ToJsonNum(@), !.rsquared = ToJsonNum(@),
              !.y2_mean = ToJsonNum(@), !.y2_first = ToJsonNum(@),
              !.y2_last = ToJsonNum(@)]

\* df.select(...): the points of curve 0 as index, x and y, those of curve 1
\* as y2; the frame is then sorted by index.
FitFrame(c0, c1, x_name, y_name, y2_name) ==
    [columns |-> <<IndexName, x_name, y_name>>
                 \o (IF y2_name # None THEN <<y2_name>> ELSE <<>>),
     data |-> <<[i \in 1..Len(c0) |-> c0[i].pointIndex],
                [i \in 1..Len(c0) |-> c0[i].x],
                [i \in 1..Len(c0) |-> c0[i].y]>>
              \o (IF y2_name # None THEN <<[i \in 1..Len(c1) |-> c1[i].y]>> ELSE <<>>),
     rows |-> <<Len(c0), Len(c1)>>]

\* The fit over the frame from its first to its last index.
FitOfFrame(fit_df, x_name, y_name, y2_name) ==
    IF HasDuplicates(fit_df.columns) THEN FitError("DuplicateError")
    ELSE IF y2_name # None /\ fit_df.rows[1] # fit_df.rows[2] THEN FitError("ShapeError")
    ELSE IF fit_df.rows[1] = 0 THEN FitError("IndexError")
    ELSE LinearFit(fit_df.data[1][1], fit_df.data[1][fit_df.rows[1]],
                   [columns |-> fit_df.columns, data |-> fit_df.data],
                   x_name, y_name, y2_name)

\* The sorted results with the record of the fit, and the overlay of the fit.
FitOutputs(fit, filename, results) ==
    IF fit.error # NoError THEN Failed(fit.error)
    ELSE Done([results |->
                   SortResults(Append(results, ToJsonRecord(make_result(fit, filename)))),
               trace |->
                   ToJsonTrace(make_fit_trace(fit.x_data, fit.y_fitted,
                                              FitTraceName(filename, fit.start_index),
                                              fit.result.slope, fit.result.rvalue,
                                              fit.start_index, fit.y2_mean))])

\* add_fit: the record and the overlay of the selected points.
add_fit(n_clicks, selected_data, x_name, y_name, y2_name, filename, results) ==
    IF n_clicks = 0 \/ selected_data = Nothing THEN Prevented
    ELSE FitOutputs(
             FitOfFrame(
                 FitFrame(SortPoints(SelectSeq(selected_data.points,
                                               LAMBDA q : q.curveNumber = 0)),
                          SelectSeq(selected_data.points, LAMBDA q : q.curveNumber = 1),
                          x_name, y_name, y2_name),
                 x_name, y_name, y2_name),
             filename, results)

\* A row with a null never equals a row of the other frame in a join.
HasNull(r) ==
    \/ r.y2_name = None
    \/ \E v \in {r.slope, r.rsquared, r.y2_mean, r.x_first, r.x_last,
                 r.y_first, r.y_last, r.y2_first, r.y2_last} : v = NullNum

\* previous.join(current, on=previous.columns, how="anti")
AntiJoin(previous, current) ==
    SelectSeq(previous,
              LAMBDA r : HasNull(r) \/ \A j \in 1..Len(current) : current[j] # r)

RemoveAt(seq, i) == SubSeq(seq, 1, i - 1) \o SubSeq(seq, i + 1, Len(seq))

\* del patched_fig["data"][trace_index] for the first removed row
RemoveTrace(removed, fig) ==
    IF removed = <<>> THEN Failed("IndexError")
    ELSE IF fig = Nothing THEN Failed("TypeError")
    ELSE IF find_trace_index(fig, removed[1].source_file, removed[1].start_index) = -1
    THEN Prevented
    ELSE Done(RemoveAt(fig, find_trace_index(fig, removed[1].source_file,
                                             removed[1].start_index) + 1))

\* remove_fit: the figure without the overlay of the first removed row.
remove_fit(data_previous, data_current, fig) ==
    IF data_previous = Nothing THEN Prevented
    ELSE RemoveTrace(AntiJoin(data_previous, data_current), fig)

-----------------------------------------------------------------------------
(* The session: the properties of the components of the page, and the      *)
(* events of the user with the callbacks each of them sets off.            *)

Csv(lines) == Join([i \in 1..Len(lines) |-> Join(lines[i], ",")], NL) \o <<NL>>

Upload_(text, stem, suffix) ==
    [contents |-> GoodContents("text", text), filename |-> FileName(stem, suffix),
     skip_rows |-> 0, separator |-> "auto"]

\* Three numeric columns, three rows.
FileA ==
    Upload_(Csv(<< << <<"t">>, <<"o2">>, <<"temp">> >>,
                   << <<"0">>, <<"9">>, <<"2", "0">> >>,
                   << <<"1">>, <<"7">>, <<"2", "0">> >>,
                   << <<"2">>, <<"6">>, <<"2", "3">> >> >>), "a", ".csv")

\* Three numeric columns, two rows.
FileB ==
    Upload_(Csv(<< << <<"t">>, <<"o2">>, <<"temp">> >>,
                   << <<"0">>, <<"4">>, <<"0">> >>,
                   << <<"3">>, <<"5">>, <<"0">> >> >>), "b", ".csv")

\* A file of an unsupported type.
FileC == Upload_(Csv(<< << <<"t">>, <<"o2">> >>, << <<"0">>, <<"4">> >> >>), "c", ".pdf")

GoodFiles == {FileA, FileB}

Files == GoodFiles \cup {FileC}

\* The first file once more, the user having set "skip rows" to 1: its
\* first data row becomes the header and two rows remain.
FileASkipped == [FileA EXCEPT !.skip_rows = 1]

Versions == {FileA, FileASkipped}

\* What read_presens makes of each file of the model.
Reads ==
    [u \in Files \cup Versions |->
        read_presens(u.contents, u.filename, u.skip_rows, u.separator)]

NoUpload == [contents |-> Nothing]

\* The page as served: no file, empty results table (data=[]), no figure.
\* last is "make_plot" when the last event was a press on Plot that drew.
InitSession ==
    [uploaded |-> NoUpload,
     filename |-> None,
     table_dataset |-> Nothing,
     x_name |-> None,
     y_name |-> None,
     y2_name |-> None,
     results |-> <<>>,
     figure |-> Nothing,
     last |-> "other"]

Init ==
    /\ args = NoCall
    /\ ret = NoCall
    /\ session = InitSession

\* update_graph on what make_plot returned, if it returned.
AfterPlot(s, plot) ==
    IF plot.status # "ok" THEN s
    ELSE [s EXCEPT !.figure = update_graph(plot.out, @)]

\* make_plot on the table populate_controls returned, if it returned.
AfterControls(s, controls) ==
    IF controls.status # "ok" THEN s
    ELSE AfterPlot([s EXCEPT !.table_dataset = controls.out.table_dataset,
                             !.x_name = controls.out.x_name,
                             !.y_name = controls.out.y_name,
                             !.y2_name = controls.out.y2_name],
                   make_plot(0, controls.out.table_dataset, controls.out.x_name,
                             controls.out.y_name, controls.out.y2_name,
                             s.results, s.filename))

\* populate_controls on the store read_presens returned, if it returned.
AfterRead(s, read) ==
    IF read.status # "ok" THEN s
    ELSE AfterControls(s, populate_controls(read.out.store_dataset))

\* The user drops a file: read_presens, then populate_controls, then
\* make_plot and update_graph, each as far as the one before it returned.
UploadFrom(files) ==
    /\ \E u \in files :
          session' = AfterRead([session EXCEPT !.uploaded = u,
                                               !.filename = FullName(u.filename),
                                               !.last = "other"],
                               Reads[u])
    /\ UNCHANGED <<args, ret>>

\* The user drops a file the program reads.
Upload == UploadFrom(GoodFiles)

\* The user drops any file.
UploadAny == UploadFrom(Files)

\* The user drops the first file, with one or the other "skip rows".
UploadVersion == UploadFrom(Versions)

\* The overlays of a press on Plot added to the figure shown.
AfterClickAdding(s, plot) ==
    IF plot.status # "ok" THEN [s EXCEPT !.last = "other"]
    ELSE [s EXCEPT !.figure = @ \o SelectSeq(plot.out, LAMBDA t : t.mode = "lines"),
                   !.last = "make_plot"]

\* The figure and the mark of a press on Plot that drew.
AfterClick(s, plot) ==
    IF plot.status # "ok" THEN [s EXCEPT !.last = "other"]
    ELSE [s EXCEPT !.figure = update_graph(plot.out, @), !.last = "make_plot"]

\* The user presses Plot: make_plot, then update_graph.
ClickPlot ==
    /\ session' = AfterClick(session,
                             make_plot(1, session.table_dataset, session.x_name,
                                       session.y_name, session.y2_name,
                                       session.results, session.filename))
    /\ UNCHANGED <<args, ret>>

\* The columns the axis dropdowns offer: their data is cols.
Options == FromDicts(session.table_dataset).columns

\* The user picks the Y column among the data columns after X.
SelectY ==
    /\ \E i \in 3..Len(Options) :
          /\ Options[i] # session.y_name
          /\ session' = [session EXCEPT !.y_name = Options[i], !.last = "other"]
    /\ UNCHANGED <<args, ret>>

\* The user clears the secondary Y column or picks the last column for it.
SelectY2 ==
    /\ Len(Options) >= 3
    /\ \E v \in {None, Options[Len(Options)]} :
          /\ v # session.y2_name
          /\ session' = [session EXCEPT !.y2_name = v, !.last = "other"]
    /\ UNCHANGED <<args, ret>>

\* graph.selectedData: the points of the marker traces of the figure the
\* user dragged a box over, curve by curve.
SelectedData(figure, s0, s1) ==
    LET pts(curve, sel) ==
            LET t == figure[curve + 1]
                ord == SelectSeq([i \in 1..Len(t.x) |-> i], LAMBDA i : i \in sel)
            IN  [j \in 1..Len(ord) |->
                    [curveNumber |-> curve, pointNumber |-> ord[j] - 1,
                     pointIndex |-> ord[j] - 1, x |-> t.x[ord[j]], y |-> t.y[ord[j]].n]]
    IN  [points |-> pts(0, s0) \o (IF s1 = {} THEN <<>> ELSE pts(1, s1))]

\* The boxes of the model: no point, the first two points, the second and
\* the third point.
Boxes(n) == {b \in {{}, {1, 2}, {2, 3}} : b \subseteq 1..n}

\* The selections the figure allows: points of the first curve, and with
\* them the same points of the second curve when that one is a data trace
\* (a box takes both, a lasso can leave them out); overlays are lines and
\* hold no point to select.
Selections(figure) ==
    IF figure = Nothing THEN {<<{}, {}>>}
    ELSE {sel \in Boxes(Len(figure[1].x)) \X Boxes(Len(figure[1].x)) :
             \/ sel[2] = {}
             \/ sel[2] = sel[1] /\ Len(figure) >= 2 /\ figure[2].mode = "markers"}

\* A failed add_fit shown as an emptied results table.
AfterFitEmptied(s, fit) ==
    IF fit.status # "ok" THEN [s EXCEPT !.results = <<>>, !.last = "other"]
    ELSE [s EXCEPT !.results = fit.out.results,
                   !.figure = update_graph(Append(@, fit.out.trace), @),
                   !.last = "other"]

\* The results table and the patched figure, if add_fit returned.
AfterFit(s, fit) ==
    IF fit.status # "ok" THEN [s EXCEPT !.last = "other"]
    ELSE [s EXCEPT !.results = fit.out.results,
                   !.figure = update_graph(Append(@, fit.out.trace), @),
                   !.last = "other"]

\* The user presses Fit with or without a selection: add_fit, then update_graph.
AddFit ==
    /\ Len(session.results) < MaxResults
    /\ Len(session.figure) < MaxTraces
    /\ \E sel \in Selections(session.figure), made \in BOOLEAN :
          /\ ~ made => sel = <<{}, {}>>
          /\ session' =
                AfterFit(session,
                         add_fit(1,
                                 IF made /\ session.figure # Nothing
                                 THEN SelectedData(session.figure, sel[1], sel[2])
                                 ELSE Nothing,
                                 session.x_name, session.y_name, session.y2_name,
                                 session.filename, session.results))
    /\ UNCHANGED <<args, ret>>

\* The patched figure, if remove_fit returned.
AfterRemoval(s, removal) ==
    IF removal.status # "ok" THEN s
    ELSE [s EXCEPT !.figure = update_graph(removal.out, @)]

\* The user deletes a row of the results table: the table hands the rows
\* before the edit over as data_previous, and remove_fit runs, then
\* update_graph.
DeleteRow ==
    /\ \E i \in 1..Len(session.results) :
          session' = AfterRemoval([session EXCEPT !.results = RemoveAt(@, i),
                                                  !.last = "other"],
                                  remove_fit(session.results,
                                             RemoveAt(session.results, i),
                                             session.figure))
    /\ UNCHANGED <<args, ret>>

Next == Upload \/ ClickPlot \/ SelectY \/ SelectY2 \/ AddFit \/ DeleteRow

\* Sessions on files the program reads, every control in use.
Spec == Init /\ [][Next]_vars

NextUploads == UploadAny \/ ClickPlot \/ SelectY2 \/ AddFit \/ DeleteRow

\* Sessions on any file, the Y column left as the upload set it.
SpecUploads == Init /\ [][NextUploads]_vars

NextVersions == UploadVersion \/ ClickPlot \/ SelectY2 \/ AddFit \/ DeleteRow

\* Sessions on one file name uploaded again and again with other settings.
SpecVersions == Init /\ [][NextVersions]_vars

-----------------------------------------------------------------------------
(* Claims about the session, under Spec and SpecUploads.                   *)

\* The table the last upload parsed to, if it fills the axis controls.
UploadedTable ==
    LET read == Reads[session.uploaded]
        rows == IF read.status = "ok" THEN read.out.store_dataset.json ELSE <<>>
    IN  IF Len(FromDicts(rows).columns) >= 3 THEN rows ELSE <<>>

\* C5: after every upload the active dataset is the table parsed from the
\* uploaded file; it is empty when ingestion failed or gave too few columns
\* for the axis controls, and never the table of an earlier file.
C5_ActiveDatasetIsLastUpload ==
    session.uploaded # NoUpload => session.table_dataset = UploadedTable

ResultKey(r) == <<StrRank(r.source_file), r.start_index>>

ResultsSorted ==
    \A i \in 1..(Len(session.results) - 1) :
        KeyLeq(ResultKey(session.results[i]), ResultKey(session.results[i + 1]))

\* The new rows are the old rows, unchanged and in their order, and one more.
OneMore(old, new) == \E k \in 1..Len(new) : RemoveAt(new, k) = old

\* C6: the results are always sorted ascending by (source_file,
\* start_index), also across row deletions, and whenever the results change
\* without losing a row, they hold exactly one record more and every record
\* they held before, unchanged.
C6_SortedAndGrowsByOne ==
    /\ []ResultsSorted
    /\ [][(session'.results # session.results
           /\ Len(session'.results) >= Len(session.results))
          => OneMore(session.results, session'.results)]_vars

\* A record of a.csv from index 1 on, sorted before a record of b.csv from
\* index 0 on.
C6_Witness ==
    /\ Len(session.results) = 2
    /\ session.results[1].source_file = "a.csv"
    /\ session.results[1].start_index = 1
    /\ session.results[2].source_file = "b.csv"
    /\ session.results[2].start_index = 0

\* The row a deletion took out of the results.
DeletedRow(old, new) == old[CHOOSE i \in 1..Len(old) : RemoveAt(old, i) = new]

HasTrace(figure, name) == \E p \in 1..Len(figure) : figure[p].name = name

\* C7: when a row is deleted from the results, the figure loses the overlay
\* named after that row's (source_file, start_index), if it shows one, and
\* nothing else; with or without a secondary Y column in the records.
C7_DeleteRemovesThatOverlay ==
    [][Len(session'.results) < Len(session.results)
       => LET r == DeletedRow(session.results, session'.results)
              name == FitTraceName(r.source_file, r.start_index)
          IN  IF HasTrace(session.figure, name)
              THEN \E p \in 1..Len(session.figure) :
                      /\ session.figure[p].name = name
                      /\ session'.figure = RemoveAt(session.figure, p)
              ELSE session'.figure = session.figure]_vars

Overlays(figure) == SelectSeq(figure, LAMBDA t : t.mode = "lines")

\* C8: no two records of the results share (source_file, start_index), and
\* no two overlays of the figure share a name.
C8_UniqueIdentity ==
    /\ \A i, j \in 1..Len(session.results) :
          i # j => ResultKey(session.results[i]) # ResultKey(session.results[j])
    /\ \A i, j \in 1..Len(Overlays(session.figure)) :
          i # j => Overlays(session.figure)[i].name # Overlays(session.figure)[j].name

\* The overlay of a record over the table, from the record's own columns.
OverlayOfRecord(parsed, r, filename) ==
    PlotFitTrace(LinearFit(r.start_index, r.end_index,
                           Slice(parsed, r.start_index, r.end_index - r.start_index + 1),
                           r.x_name, r.y_name, r.y2_name),
                 filename, r.start_index)

\* C9: after a press on Plot that drew, the figure shows one overlay for
\* every record of the active file and none for other records, each
\* computed over the active table from the start_index, end_index, x_name,
\* y_name and y2_name stored in the record.
C9_OverlaysFromStoredRecords ==
    session.last = "make_plot" =>
        LET res == RecordsOf(session.results, session.filename)
            shown == Overlays(session.figure)
        IN  /\ Len(shown) = Len(res)
            /\ \A i \in 1..Len(res) :
                  LET o == OverlayOfRecord(FromDicts(session.table_dataset), res[i],
                                           session.filename)
                  IN  o.error = NoError /\ shown[i] = o.trace

\* C10: a press on Plot changes nothing but the figure, and a second press
\* right after one that drew leaves the figure as the first one made it.
C10_PlotIdempotent ==
    [][session'.last = "make_plot"
       => /\ [session' EXCEPT !.figure = session.figure, !.last = session.last] = session
          /\ session.last = "make_plot" => session'.figure = session.figure]_vars

\* A press on Plot that drew two overlays.
C10_Witness ==
    /\ session.last = "make_plot"
    /\ Len(session.results) = 2
    /\ Len(Overlays(session.figure)) = 2

RecordName(r) == FitTraceName(r.source_file, r.start_index)

\* How many overlays of the figure carry the name.
ShownTimes(name) ==
    Cardinality({p \in 1..Len(Overlays(session.figure)) :
                    Overlays(session.figure)[p].name = name})

\* How many records of the active file carry the name.
RecordedTimes(name) ==
    Cardinality({j \in 1..Len(RecordsOf(session.results, session.filename)) :
                    RecordName(RecordsOf(session.results, session.filename)[j]) = name})

\* C11: in every state the figure shows an overlay named after
\* (source_file, start_index) exactly when the results hold a record of that
\* identity whose source_file is the active filename, one overlay per record.
C11_OverlayIffRecord ==
    /\ \A p \in 1..Len(Overlays(session.figure)) :
          ShownTimes(Overlays(session.figure)[p].name)
              = RecordedTimes(Overlays(session.figure)[p].name)
    /\ \A j \in 1..Len(session.results) :
          ShownTimes(RecordName(session.results[j]))
              = RecordedTimes(RecordName(session.results[j]))

\* The record's range indexes rows of the table, first to last.
ValidRange(r, table) ==
    /\ 0 <= r.start_index
    /\ r.start_index <= r.end_index
    /\ r.end_index < Height(table)

\* The columns a fit request names are columns of the table.
KnownColumns(x_name, y_name, y2_name, table) ==
    /\ HasColumn(table, x_name)
    /\ HasColumn(table, y_name)
    /\ y2_name # None => HasColumn(table, y2_name)

\* C12: a fit request whose range is not start_index <= end_index within the
\* rows of the table, or that names a column the table lacks, fails and
\* makes no fit: a press on Plot, which requests the range of every record
\* of the active file over the columns of the axis controls, draws only when
\* each range is valid and the columns are known in the active table, and
\* add_fit adds only a record of a valid range over known columns.
C12_InvalidRequestFails ==
    /\ [](session.last = "make_plot" =>
            /\ KnownColumns(session.x_name, session.y_name, session.y2_name,
                            FromDicts(session.table_dataset))
            /\ \A j \in 1..Len(RecordsOf(session.results, session.filename)) :
                  ValidRange(RecordsOf(session.results, session.filename)[j],
                             FromDicts(session.table_dataset)))
    /\ [][Len(session'.results) > Len(session.results) =>
             \E j \in 1..Len(session'.results) :
                 /\ RemoveAt(session'.results, j) = session.results
                 /\ ValidRange(session'.results[j], FromDicts(session.table_dataset))
                 /\ KnownColumns(session'.results[j].x_name, session'.results[j].y_name,
                                 session'.results[j].y2_name,
                                 FromDicts(session.table_dataset))]_vars

\* C20: in every state, each record of the results whose source_file is the
\* active filename has 0 <= start_index <= end_index < the number of rows of
\* the active table.
C20_RecordsIndexActiveTable ==
    \A j \in 1..Len(RecordsOf(session.results, session.filename)) :
        ValidRange(RecordsOf(session.results, session.filename)[j],
                   FromDicts(session.table_dataset))

\* The names of the files whose upload puts that table on the page.
FilesOfTable(table_dataset) ==
    {FullName(u.filename) :
        u \in {v \in Files :
                  /\ Reads[v].status = "ok"
                  /\ populate_controls(Reads[v].out.store_dataset).status = "ok"
                  /\ populate_controls(Reads[v].out.store_dataset).out.table_dataset
                         = table_dataset}}

\* C23: every record a press on Fit adds carries as source_file the name of
\* the file the selected points were taken from: after any uploads, failed
\* ones included, the name written into the record is the name of the file
\* whose data is plotted.
C23_RecordNamesPlottedFile ==
    [][Len(session'.results) > Len(session.results) =>
          \E j \in 1..Len(session'.results) :
              /\ RemoveAt(session'.results, j) = session.results
              /\ session'.results[j].source_file \in FilesOfTable(session.table_dataset)]_vars

-----------------------------------------------------------------------------
(* Fits as calls: LinearFit on small frames, and add_fit on a page with    *)
(* the points the user picked, in the order the browser reports them.      *)

MaxPoints == 3
MaxValue == 2
MaxPicked == 4

\* Frames of up to n rows: the index, an x and a y column with values up to
\* v.  A fit depends on the rows and not on their order, so the rows are
\* taken in the order of their x.
FitFrames(n, v) ==
    UNION {{[columns |-> <<IndexName, "t", "o2">>,
             data |-> <<[i \in 1..m |-> i - 1], xs, ys>>] :
               xs \in {f \in [1..m -> 0..v] : \A i \in 1..(m - 1) : f[i] <= f[i + 1]},
               ys \in [1..m -> 0..v]} :
           m \in 0..n}

\* x, y and secondary y of a call: columns of the frame, or "u" and "w",
\* which the frame lacks.
FitNames ==
    {<<"t", "o2", None>>, <<"t", "o2", "o2">>, <<"u", "o2", None>>, <<"t", "o2", "w">>}

LinearFitCalls(frames) ==
    {[fn |-> "LinearFit", start_index |-> 0, end_index |-> Height(df) - 1, df |-> df,
      x_name |-> nm[1], y_name |-> nm[2], y2_name |-> nm[3]] :
        df \in frames, nm \in FitNames}

\* The page after the first file was dropped.
PageA ==
    AfterRead([InitSession EXCEPT !.uploaded = FileA,
                                  !.filename = FullName(FileA.filename)],
              Reads[FileA])

\* The page after a fit of its first two rows.
FittedPage(page) ==
    AfterFit(page, add_fit(1, SelectedData(page.figure, {1, 2}, {1, 2}),
                           page.x_name, page.y_name, page.y2_name,
                           page.filename, page.results))

\* The page after the user cleared the secondary Y: the figure still shows
\* both columns.
ClearedPage(page) == [page EXCEPT !.y2_name = None]

\* The page itself and the pages after a fit, after clearing the secondary
\* Y, and after both.
PagesOf(page) ==
    <<page, ClearedPage(page), FittedPage(page), ClearedPage(FittedPage(page))>>

Pages == PagesOf(PageA)

\* A point of a curve of the figure as selectedData reports it.
Point(figure, curve, i) ==
    [curveNumber |-> curve, pointNumber |-> i - 1, pointIndex |-> i - 1,
     x |-> figure[curve + 1].x[i], y |-> figure[curve + 1].y[i].n]

Points(figure) ==
    {Point(figure, ci[1], ci[2]) :
        ci \in {c \in (0..(Len(figure) - 1)) \X (1..MaxPoints) :
                   c[2] <= Len(figure[c[1] + 1].x)}}

\* Up to MaxPicked points, no point twice, in any order.
Picks(points) ==
    UNION {{q \in [1..n -> points] :
               \A i, j \in 1..n : i # j => q[i] # q[j]} : n \in 0..MaxPicked}

\* A press on Fit on the page of that number: nothing selected, or a pick
\* of the points of its figure.
AddFitCalls(number, figure) ==
    {[fn |-> "add_fit", page |-> number, selected_data |-> sd] :
        sd \in {Nothing} \cup {[points |-> q] : q \in Picks(Points(figure))}}

\* A call of LinearFit on a frame, or a press on Fit on one of the pages.
InitFitOn(pages) ==
    \/ /\ args \in LinearFitCalls(FitFrames(MaxPoints, MaxValue))
       /\ session = NoSession
    \/ \E number \in 1..Len(pages) :
          /\ args \in AddFitCalls(number, pages[number].figure)
          /\ session = pages[number]

InitFit ==
    /\ ret = NoCall
    /\ InitFitOn(Pages)

\* The page the press was made on, as it was before the press.
PressedPage == Pages[args.page]

\* What the caller of LinearFit holds: the fit and its record, or the error.
FitReturn(fit) ==
    IF fit.error # NoError THEN Failed(fit.error)
    ELSE Done([fit |-> fit, record |-> make_result(fit, "a.csv")])

CallLinearFit ==
    /\ args.fn = "LinearFit"
    /\ ret = NoCall
    /\ ret' = FitReturn(LinearFit(args.start_index, args.end_index, args.df,
                                  args.x_name, args.y_name, args.y2_name))
    /\ UNCHANGED <<args, session>>

\* A press on Fit on the page, with the points picked.
CallAddFit ==
    /\ args.fn = "add_fit"
    /\ ret = NoCall
    /\ ret' = add_fit(1, args.selected_data, session.x_name, session.y_name,
                      session.y2_name, session.filename, session.results)
    /\ session' = AfterFit(session, ret')
    /\ UNCHANGED args

NextFit == CallLinearFit \/ CallAddFit

SpecFit == InitFit /\ [][NextFit]_vars

Fitted == args.fn = "LinearFit" /\ ret # NoCall
Pressed == args.fn = "add_fit" /\ ret # NoCall

-----------------------------------------------------------------------------
(* Claims about fits, under SpecFit.                                       *)

\* Fewer than two points, or the same x in every point.
Degenerate(xs) == Len(xs) < 2 \/ \A i \in 1..Len(xs) : xs[i] = xs[1]

\* The record of the results the press added.
Added ==
    session.results[CHOOSE j \in 1..Len(session.results) :
                        RemoveAt(session.results, j) = PressedPage.results]

\* C13: a fit over fewer than two points, or over points that all have the
\* same x, fails and yields no record: LinearFit on such a frame raises, and
\* add_fit never adds a record whose slope is undefined.
C13_DegenerateFitFails ==
    /\ (Fitted /\ HasColumn(args.df, args.x_name)
               /\ Degenerate(GetColumn(args.df, args.x_name))) => ret.status # "ok"
    /\ (Pressed /\ ret.status = "ok") => Added.slope # NullNum

\* The fit add_fit asks for: LinearFit over the picked points of curve 0.
FitOfPicked ==
    FitOfFrame(FitFrame(SortPoints(SelectSeq(args.selected_data.points,
                                             LAMBDA q : q.curveNumber = 0)),
                        SelectSeq(args.selected_data.points, LAMBDA q : q.curveNumber = 1),
                        PressedPage.x_name, PressedPage.y_name, PressedPage.y2_name),
               PressedPage.x_name, PressedPage.y_name, PressedPage.y2_name)

\* C14: when the fit of a press on Fit fails, the error reaches the caller
\* of add_fit, no output is returned, and the results and the overlays of
\* the figure are what they were before the press.
C14_FailedFitChangesNothing ==
    (Pressed /\ args.selected_data # Nothing /\ FitOfPicked.error # NoError) =>
        /\ ret.status = FitOfPicked.error
        /\ ret.out = Nothing
        /\ session.results = PressedPage.results
        /\ Overlays(session.figure) = Overlays(PressedPage.figure)

\* A failed fit on a page that holds a record and shows its overlay.
C14_Witness ==
    /\ Pressed
    /\ ret.status \notin {"ok", "PreventUpdate"}
    /\ Len(PressedPage.results) > 0
    /\ Len(Overlays(PressedPage.figure)) > 0

\* LinregressResult.rsquared: self.rvalue**2
LinregressResultRsquared(result) == Squared(result.rvalue)

\* C15: for every fit, rsquared is the square of rvalue wherever it is
\* read: LinearFit.rsquared, LinregressResult.rsquared and the "rsquared"
\* of the record make_result writes are all result.rvalue**2.
C15_RsquaredIsRvalueSquared ==
    (Fitted /\ ret.status = "ok") =>
        /\ ret.out.fit.rsquared = Squared(ret.out.fit.result.rvalue)
        /\ LinregressResultRsquared(ret.out.fit.result) = Squared(ret.out.fit.result.rvalue)
        /\ ret.out.record.rsquared = Squared(ret.out.fit.result.rvalue)
        /\ (ret.out.fit.result.rvalue.sign = 0) = (ret.out.fit.rsquared = Num(0, 1))

\* A fit whose rvalue is neither 0 nor 1 nor -1.
C15_Witness ==
    /\ Fitted
    /\ ret.status = "ok"
    /\ ret.out.record.rsquared \notin {Num(0, 1), Num(1, 1)}
    /\ ret.out.record.slope # ret.out.record.rsquared

\* The row indices of the picked points of a curve.
PickedIndices(curve) ==
    {args.selected_data.points[i].pointIndex :
        i \in {k \in 1..Len(args.selected_data.points) :
                  args.selected_data.points[k].curveNumber = curve}}

\* C16: the record a press on Fit adds has for start_index the least and for
\* end_index the greatest row index among the picked points of curve 0,
\* whatever points of curve 1 or of an overlay were picked with them and
\* whatever the order of the points.
C16_RangeFromCurveZero ==
    (Pressed /\ ret.status = "ok") =>
        /\ Added.start_index \in PickedIndices(0)
        /\ Added.end_index \in PickedIndices(0)
        /\ \A k \in PickedIndices(0) : Added.start_index <= k /\ k <= Added.end_index

\* A fit of points of curve 0 picked from right to left, together with
\* points of curve 1 and a point of an overlay at another row.
C16_Witness ==
    /\ Pressed
    /\ ret.status = "ok"
    /\ args.selected_data.points[1].curveNumber = 0
    /\ args.selected_data.points[1].pointIndex = Added.end_index
    /\ Added.start_index < Added.end_index
    /\ PickedIndices(1) # {}
    /\ PickedIndices(2) # {}
    /\ ~ (PickedIndices(2) \subseteq PickedIndices(0))

\* What make_plot fits for the record the press added: LinearFit over the
\* rows start_index..end_index of the table of the page.
RefitOfAdded ==
    LinearFit(Added.start_index, Added.end_index,
              Slice(FromDicts(PressedPage.table_dataset), Added.start_index,
                    Added.end_index - Added.start_index + 1),
              PressedPage.x_name, PressedPage.y_name, PressedPage.y2_name)

\* C21: the rows a press on Fit regresses over are exactly the rows
\* start_index..end_index of the table of the page, so that the slope of the
\* added record is the slope make_plot computes again for that record from
\* the slice of the table with the same columns.
C21_FitOverRecordedRange ==
    (Pressed /\ ret.status = "ok") =>
        /\ RefitOfAdded.error = NoError
        /\ ret.out.trace.x = RefitOfAdded.x_data
        /\ Added.slope = ToJsonNum(RefitOfAdded.result.slope)

\* The picked points are those of every row from the first to the last
\* picked row, on the first curve and, with a secondary Y, on the second.
WholeRangePicked ==
    /\ PickedIndices(0) = Added.start_index..Added.end_index
    /\ PressedPage.y2_name # None => PickedIndices(1) = PickedIndices(0)

\* The overlay make_plot draws for the record the press added.
ReplottedOverlay ==
    PlotFitTrace(RefitOfAdded, PressedPage.filename, Added.start_index)

\* C22: for the same record and the same table, the overlay a press on Fit
\* appends and the overlay make_plot draws are identical, hover label
\* included: in both, the value after "r^2=" is the rsquared of the record.
C22_OverlayAsReplotted ==
    (Pressed /\ ret.status = "ok" /\ WholeRangePicked) =>
        /\ ReplottedOverlay.error = NoError
        /\ ret.out.trace.hover.r2 = Format(Added.rsquared, 3)
        /\ ReplottedOverlay.trace.hover.r2 = Format(Added.rsquared, 3)
        /\ ret.out.trace = ReplottedOverlay.trace

-----------------------------------------------------------------------------
(* The review markers of GlobalState (datamodel.py 34-104): a frame of     *)
(* rows (source_file_cleaned, status) read from fit_markers.arrow.         *)

MaxMarked == 2

Statuses == {"ok", "bad", "tbd"}

SourceFiles == Range(NameOrder)

\* marked_files.update(temp_df, on="source_file_cleaned", how="left"): every
\* row of the frame is kept, the rows of the key take the status of
\* temp_df, and no row is added; write_ipc and read_ipc give the frame back.
mark_file(marked_files, source_file_cleaned, status) ==
    [i \in 1..Len(marked_files) |->
        IF marked_files[i].source_file_cleaned = source_file_cleaned
        THEN [marked_files[i] EXCEPT !.status = status]
        ELSE marked_files[i]]

\* filter(source_file_cleaned == ...).item(0, "status")
get_marked_status(marked_files, source_file_cleaned) ==
    IF \A i \in 1..Len(marked_files) :
           marked_files[i].source_file_cleaned # source_file_cleaned
    THEN Failed("IndexError")
    ELSE Done(marked_files[CHOOSE i \in 1..Len(marked_files) :
                  /\ marked_files[i].source_file_cleaned = source_file_cleaned
                  /\ \A j \in 1..(i - 1) :
                        marked_files[j].source_file_cleaned # source_file_cleaned].status)

\* The frames fit_markers.arrow can hold: up to so many rows, one per file.
MarkerFrames(rows) ==
    UNION {{m \in [1..n -> [source_file_cleaned : SourceFiles, status : Statuses]] :
               \A i, j \in 1..n :
                   i # j => m[i].source_file_cleaned # m[j].source_file_cleaned} :
           n \in 0..rows}

\* GlobalState(): the markers as read from the file, no call made yet.
InitMarkers ==
    /\ args = [fn |-> "GlobalState"]
    /\ ret = NoCall
    /\ session \in {[tag |-> "GlobalState", marked_files |-> m] : m \in MarkerFrames(MaxMarked)}

MarkFile ==
    /\ \E f \in SourceFiles, st \in Statuses :
          /\ args' = [fn |-> "mark_file", source_file_cleaned |-> f, status |-> st]
          /\ session' = [session EXCEPT !.marked_files = mark_file(@, f, st)]
    /\ ret' = NoCall

GetMarkedStatus ==
    /\ \E f \in SourceFiles :
          /\ args' = [fn |-> "get_marked_status", source_file_cleaned |-> f]
          /\ ret' = get_marked_status(session.marked_files, f)
    /\ UNCHANGED session

NextMarkers == MarkFile \/ GetMarkedStatus

SpecMarkers == InitMarkers /\ [][NextMarkers]_vars

\* The status of the file in the frame, or the error of reading it.
StatusOf(s, f) == get_marked_status(s.marked_files, f)

\* C17: after mark_file(f, s), get_marked_status(f) returns s, whether f was
\* in the store or not; the store holds at most one row per source file; and
\* mark_file(f, s) leaves the status of every other file as it was.
C17_MarkerStoreUpserts ==
    /\ [](args.fn = "mark_file" =>
            StatusOf(session, args.source_file_cleaned) = Done(args.status))
    /\ [](\A i, j \in 1..Len(session.marked_files) :
            i # j => session.marked_files[i].source_file_cleaned
                        # session.marked_files[j].source_file_cleaned)
    /\ [][args'.fn = "mark_file" =>
            \A f \in SourceFiles \ {args'.source_file_cleaned} :
                StatusOf(session', f) = StatusOf(session, f)]_vars

-----------------------------------------------------------------------------
(* The two processes of the application (main.py, server.py 110-113 and    *)
(* 671-674, domino.py): the window process starts the server process, and  *)
(* each of them watches the other in a thread of its own.  A process that  *)
(* receives SIGTERM has no handler for it and ends at once, with all its   *)
(* threads.                                                                *)

\* No watcher thread is started.
NoThread(watch) == watch

\* No watcher thread is started, parent or not.
NoParentThread(has_parent, watch) == watch

\* terminate_when_process_dies: the thread is started, and will join.
terminate_when_process_dies(watch) == "join"

\* terminate_when_parent_process_dies: a watcher only if there is a parent.
terminate_when_parent_process_dies(has_parent, watch) ==
    IF has_parent THEN terminate_when_process_dies(watch) ELSE watch

\* join_process_and_terminate, first line: process.join() returns once the
\* process it waits for has ended.
Joined(watch, ended) == IF watch = "join" /\ ended THEN "kill" ELSE watch

\* start(): nothing started yet; started == "app".  start_dash() called in
\* a process of its own that has no parent process: started == "alone".
InitDomino ==
    /\ args = NoCall
    /\ ret = NoCall
    /\ session \in
         {[tag |-> "processes", started |-> "app",
           p_state |-> "running", p_main |-> "start", p_watch |-> "none",
           c_state |-> "none", c_main |-> "none", c_watch |-> "none"],
          [tag |-> "processes", started |-> "alone",
           p_state |-> "absent", p_main |-> "absent", p_watch |-> "none",
           c_state |-> "running", c_main |-> "boot", c_watch |-> "none"]}

ParentRuns == session.p_state = "running"
ParentEnded == session.p_state \in {"sigterm", "killed", "exited"}
ChildRuns == session.c_state = "running"
ChildEnded == session.c_state \in {"sigterm", "terminated", "crashed"}

\* main.py 26-27: p = Process(target=start_dash, ...); p.start()
ParentStartsChild ==
    /\ ParentRuns /\ session.p_main = "start"
    /\ session' = [session EXCEPT !.p_main = "started",
                                  !.c_state = "running", !.c_main = "boot"]
    /\ UNCHANGED <<args, ret>>

\* main.py 29: terminate_when_process_dies(p)
ParentStartsWatcher ==
    /\ ParentRuns /\ session.p_main = "started"
    /\ session' = [session EXCEPT !.p_main = "wait",
                                  !.p_watch = terminate_when_process_dies(@)]
    /\ UNCHANGED <<args, ret>>

\* main.py 31-32: the main thread enters server_is_started.wait()
ParentWaits ==
    /\ ParentRuns /\ session.p_main = "wait"
    /\ session' = [session EXCEPT !.p_main = "waiting"]
    /\ UNCHANGED <<args, ret>>

\* main.py 34-53: the window is shown; the user closes it.
WindowClosed ==
    /\ ParentRuns /\ session.p_main = "window"
    /\ session' = [session EXCEPT !.p_main = "closed"]
    /\ UNCHANGED <<args, ret>>

\* main.py 56: p.terminate() sends SIGTERM to the server process.
ParentTerminatesChild ==
    /\ ParentRuns /\ session.p_main = "closed"
    /\ session' = [session EXCEPT !.p_main = "exit",
                                  !.c_state = IF @ = "running" THEN "terminated" ELSE @]
    /\ UNCHANGED <<args, ret>>

\* main.py 57: sys.exit(0) ends the main thread.  The process ends with
\* status 0 if no other thread is left; the watcher is not a daemon thread,
\* and the interpreter waits for it.
ParentMainExits ==
    /\ ParentRuns /\ session.p_main = "exit"
    /\ session' = [session EXCEPT
                      !.p_main = "done",
                      !.p_state = IF session.p_watch = "none" THEN "exited" ELSE @]
    /\ UNCHANGED <<args, ret>>

\* domino.py 13: process.join() in the watcher of the window process
ParentWatcherJoins ==
    /\ ParentRuns /\ session.p_watch = "join" /\ ChildEnded
    /\ session' = [session EXCEPT !.p_watch = Joined(@, ChildEnded)]
    /\ UNCHANGED <<args, ret>>

\* domino.py 16: os.kill(os.getpid(), signal.SIGTERM) in the window process
ParentWatcherKills ==
    /\ ParentRuns /\ session.p_watch = "kill"
    /\ session' = [session EXCEPT !.p_state = "sigterm"]
    /\ UNCHANGED <<args, ret>>

\* The window process is ended from outside (kill, crash of the shell).
ParentKilled ==
    /\ ParentRuns
    /\ session' = [session EXCEPT !.p_state = "killed"]
    /\ UNCHANGED <<args, ret>>

\* server.py 113: terminate_when_parent_process_dies()
ChildStartsWatcher ==
    /\ ChildRuns /\ session.c_main = "boot"
    /\ session' = [session EXCEPT
                      !.c_main = "built",
                      !.c_watch = terminate_when_parent_process_dies(
                                      session.started = "app", @)]
    /\ UNCHANGED <<args, ret>>

\* server.py 671-674: server_is_started.notify() wakes the main thread of
\* the window process if it waits; then app.run serves.
ChildNotifies ==
    /\ ChildRuns /\ session.c_main = "built"
    /\ session' = [session EXCEPT !.c_main = "serving",
                                  !.p_main = IF @ = "waiting" THEN "window" ELSE @]
    /\ UNCHANGED <<args, ret>>

\* domino.py 13: process.join() in the watcher of the server process
ChildWatcherJoins ==
    /\ ChildRuns /\ session.c_watch = "join" /\ ParentEnded
    /\ session' = [session EXCEPT !.c_watch = Joined(@, ParentEnded)]
    /\ UNCHANGED <<args, ret>>

\* domino.py 16: os.kill(os.getpid(), signal.SIGTERM) in the server process
ChildWatcherKills ==
    /\ ChildRuns /\ session.c_watch = "kill"
    /\ session' = [session EXCEPT !.c_state = "sigterm"]
    /\ UNCHANGED <<args, ret>>

\* The server process ends for a reason of its own (an exception in
\* start_dash, the port is taken, a kill from outside).
ChildCrashes ==
    /\ ChildRuns
    /\ session' = [session EXCEPT !.c_state = "crashed"]
    /\ UNCHANGED <<args, ret>>

NextDomino ==
    \/ ParentStartsChild \/ ParentStartsWatcher \/ ParentWaits \/ WindowClosed
    \/ ParentTerminatesChild \/ ParentMainExits
    \/ ParentWatcherJoins \/ ParentWatcherKills \/ ParentKilled
    \/ ChildStartsWatcher \/ ChildNotifies
    \/ ChildWatcherJoins \/ ChildWatcherKills \/ ChildCrashes

SpecDomino == InitDomino /\ [][NextDomino]_vars

\* A thread that can run is run: the statements after p.start(), the first
\* statement of start_dash and the two statements of each watcher.  Nothing
\* makes the user close the window, a process crash, or the server notify.
SpecDominoFair ==
    /\ SpecDomino
    /\ WF_vars(ParentStartsWatcher)
    /\ WF_vars(ParentWatcherJoins)
    /\ WF_vars(ParentWatcherKills)
    /\ WF_vars(ChildStartsWatcher)
    /\ WF_vars(ChildWatcherJoins)
    /\ WF_vars(ChildWatcherKills)

\* As SpecDominoFair, and the main thread of the window process runs its
\* statements too: it enters the wait, and after the window was closed it
\* calls p.terminate() and sys.exit(0).
SpecStartFair ==
    /\ SpecDominoFair
    /\ WF_vars(ParentWaits)
    /\ WF_vars(ParentTerminatesChild)
    /\ WF_vars(ParentMainExits)

\* C18: whenever the server process has ended, for whatever reason, the
\* window process that started it is eventually sent SIGTERM by its watcher
\* thread, unless it was itself ended from outside before that.
C18_ChildExitTerminatesParent ==
    (session.started = "app" /\ ChildEnded)
        ~> (session.p_state = "sigterm" \/ session.p_state = "killed")

\* The server process crashed and the watcher ended the window process.
C18_Witness ==
    /\ session.c_state = "crashed"
    /\ session.p_state = "sigterm"

\* C19: whenever the window process has ended, the server process
\* eventually sends SIGTERM to itself unless it has ended already, so that
\* it does not outlive its parent; a server process without a parent
\* process starts no watcher and never signals itself.
C19_ParentExitTerminatesChild ==
    /\ ParentEnded ~> (session.c_state # "running")
    /\ (ParentEnded /\ ChildRuns) ~> (session.c_state \in {"sigterm", "crashed"})
    /\ [](session.started = "alone" =>
            session.c_watch = "none" /\ session.c_state # "sigterm")

\* The window process was ended from outside and the server process ended
\* itself.
C19_Witness ==
    /\ session.p_state = "killed"
    /\ session.c_state = "sigterm"

\* The main thread of the window process is past server_is_started.wait().
WaitReturned == session.p_main \in {"window", "closed", "exit", "done"}

\* C24: once the server process has executed its notify, the wait of the
\* window process eventually returns, whatever the order of the steps of the
\* two processes, unless the window process has ended; and the wait never
\* returns, so the window is never created, before the notify.
C24_WaitReturnsAfterNotify ==
    /\ [](WaitReturned => session.c_main = "serving")
    /\ (session.started = "app" /\ session.c_main = "serving")
           ~> (WaitReturned \/ ParentEnded)

\* C25: once the window was closed and start() has terminated the server
\* process, the window process ends through sys.exit(0), with exit status
\* 0, and never by the SIGTERM of its own watcher thread, whatever the order
\* of the steps of the main thread and of the watcher; only a kill from
\* outside can come first.
C25_ClosedWindowExitsWithZero ==
    /\ [](session.c_state = "terminated" => session.p_state # "sigterm")
    /\ (session.p_main = "closed") ~> (session.c_state # "running" \/ ParentEnded)
    /\ (session.c_state = "terminated")
           ~> (session.p_state = "exited" \/ session.p_state = "killed")

=============================================================================
